---- MODULE Spec2Model ----
(***************************************************************************)
(* A model of scripts/simplified_to_traditional.py: the dictionary loader  *)
(* (load_dict), the derived max_phrase_len, the greedy longest-match       *)
(* converter (convert_text) and the host's CSV file loop.                  *)
(*                                                                         *)
(* Strings are sequences of code points (integers); Python's 0-based       *)
(* indices are kept, so text[i] of the source is text[i + 1] here.         *)
(* A dict is the sequence of its (key, value) pairs in insertion order.    *)
(***************************************************************************)
EXTENDS Integers, Sequences, FiniteSets, TLC

VARIABLES
    pc,             \* position of the module-level script
    files,          \* the two dictionary files on disk: missing / ok / undecodable
    phrase_map,     \* global dict, line 26
    char_map,       \* global dict, line 25
    max_phrase_len, \* global int, line 57
    warned,         \* file names load_dict printed a warning for, line 32
    ld,             \* frame of the running load_dict call
    calls,          \* frames of the convert_text calls, one per caller
    loaded,         \* history: the load_dict calls that returned, whether line 59
                    \* was passed, and the three globals as they were then
    fs,             \* the target directory: its CSV files and their .tmp files
    job,            \* locals of the file loop, lines 105-130
    rt              \* frame of the running translate_zh_text call

vars ==
    <<pc, files, phrase_map, char_map, max_phrase_len, warned, ld, calls,
      loaded, fs, job, rt>>

(***************************************************************************)
(* Bounds of the model.                                                    *)
(***************************************************************************)
MaxKeyLen == 2          \* longest dictionary key drawn for the converter
MaxPhraseEntries == 2   \* most entries of a drawn phrase table
MaxTextLen == 3         \* longest text handed to convert_text

\* Code points the texts and keys are drawn from: U+53D1, U+5934.
Alphabet == {21457, 22836}

(***************************************************************************)
(* Strings.                                                                *)
(***************************************************************************)
Min(a, b) == IF a < b THEN a ELSE b

Max(a, b) == IF a > b THEN a ELSE b

\* All strings over A with lo..hi code points.
Strs(A, lo, hi) == UNION {[1..n -> A] : n \in lo..hi}

\* s[i:j] of Python for 0 <= i: the end is clamped to len(s), never an error.
Slice(s, i, j) == SubSeq(s, i + 1, Min(j, Len(s)))

RECURSIVE Join(_)
\* "".join(parts)
Join(parts) == IF parts = <<>> THEN <<>> ELSE Head(parts) \o Join(Tail(parts))

(***************************************************************************)
(* Dicts.                                                                  *)
(***************************************************************************)
DictKeys(d) == {d[x].k : x \in 1..Len(d)}

\* k in d
DictHas(d, k) == \E x \in 1..Len(d) : d[x].k = k

\* d[k] for a key of d
DictGet(d, k) == d[CHOOSE x \in 1..Len(d) : d[x].k = k].v

\* How many pairs of d carry the key k.
DictCount(d, k) == Cardinality({x \in 1..Len(d) : d[x].k = k})

\* Faulty variant: the first value of a key is kept (setdefault).
DictSetKeepFirst(d, k, v) ==
    IF DictHas(d, k) THEN d ELSE Append(d, [k |-> k, v |-> v])

\* d[k] = v: an existing key keeps its place and takes the new value.
DictSet(d, k, v) ==
    IF DictHas(d, k)
    THEN [x \in 1..Len(d) |-> IF d[x].k = k THEN [k |-> k, v |-> v] ELSE d[x]]
    ELSE Append(d, [k |-> k, v |-> v])

\* Faulty variant: the read removes the key (pop).
DictPop(d, k) ==
    [val |-> DictGet(d, k),
     dict |-> SelectSeq(d, LAMBDA e : e.k # k)]

\* The subscript read d[k]: the value, and the dict as the read leaves it.
DictRead(d, k) == [val |-> DictGet(d, k), dict |-> d]

(***************************************************************************)
(* load_dict's line parsing, lines 38-49.                                  *)
(***************************************************************************)
TAB == 9

SP == 32

\* str.isspace of a code point: what str.strip() removes.
IsSpace(ch) ==
    \/ ch \in {9, 10, 11, 12, 13, 28, 29, 30, 31, 32, 133, 160, 5760}
    \/ ch \in 8192..8202
    \/ ch \in {8232, 8233, 8239, 8287, 12288}

RECURSIVE LStrip(_)
LStrip(s) ==
    IF s # <<>> /\ IsSpace(Head(s)) THEN LStrip(Tail(s)) ELSE s

RECURSIVE RStrip(_)
RStrip(s) ==
    IF s # <<>> /\ IsSpace(s[Len(s)]) THEN RStrip(SubSeq(s, 1, Len(s) - 1)) ELSE s

\* line.strip()
Strip(s) == RStrip(LStrip(s))

RECURSIVE SplitOn(_, _)
\* s.split(sep) for a separator of one code point: one more part than s has
\* separators, empty parts included.
SplitOn(s, sep) ==
    IF \A j \in 1..Len(s) : s[j] # sep THEN <<s>>
    ELSE LET p == CHOOSE j \in 1..Len(s) :
                    s[j] = sep /\ \A q \in 1..(j - 1) : s[q] # sep
         IN  <<SubSeq(s, 1, p - 1)>> \o SplitOn(SubSeq(s, p + 1, Len(s)), sep)

\* Faulty variant: the empty parts are not filtered out.
KeepAll(parts) == parts

\* [p for p in parts if p]
NonEmpty(parts) == SelectSeq(parts, LAMBDA p : p # <<>>)

\* Faulty variant: len(parts) >= 1.
AcceptsOne(parts) == Len(parts) >= 1

\* len(parts) >= 2
Accepts(parts) == Len(parts) >= 2

\* Faulty variant: the whole field is the target, parts[1].
WholeField(field) == field

\* parts[1].split(' ')[0]
FirstCandidate(field) == SplitOn(field, SP)[1]

\* The body of the for loop, lines 38-49, on one line of the file: the
\* target map and the entry count as the line leaves them, and whether the
\* body raised (parts[1] of a list of one part).
LineBody(map, count, line) ==
    LET stripped == Strip(line)
        parts == NonEmpty(SplitOn(stripped, TAB))
    IN  IF stripped = <<>>
        THEN [map |-> map, count |-> count, raised |-> FALSE]
        ELSE IF Accepts(parts)
        THEN IF Len(parts) < 2
             THEN [map |-> map, count |-> count, raised |-> TRUE]
             ELSE [map |-> DictSet(map, parts[1], FirstCandidate(parts[2])),
                   count |-> count + 1, raised |-> FALSE]
        ELSE [map |-> map, count |-> count, raised |-> FALSE]

(***************************************************************************)
(* max_phrase_len, lines 57-59.                                            *)
(***************************************************************************)
RECURSIVE MaxOf(_)
MaxOf(S) ==
    IF S = {} THEN 0
    ELSE LET x == CHOOSE x \in S : TRUE IN Max(x, MaxOf(S \ {x}))

\* Faulty variant: len(phrase_map).
MaxPhraseLenByCount(pm) == Len(pm)

MaxPhraseLen(pm) ==
    IF pm = <<>> THEN 0 ELSE MaxOf({Len(k) : k \in DictKeys(pm)})

(***************************************************************************)
(* convert_text, lines 67-94.                                              *)
(***************************************************************************)
\* Faulty variant: the window is not clamped to what is left of the text.
LimitUnclamped(mpl, n, i) == mpl

\* Faulty variant: the window stops one short of the end of the text.
LimitShort(mpl, n, i) == Min(mpl, n - i - 1)

\* limit = min(max_phrase_len, n - i)
Limit(mpl, n, i) == Min(mpl, n - i)

\* Faulty variant: range(limit, 1, -1), which leaves length 1 out.
CandidateLengthsFromTwo(limit) ==
    IF limit < 2 THEN <<>> ELSE [x \in 1..(limit - 1) |-> limit + 1 - x]

\* range(limit, 0, -1): limit, limit - 1, ..., 1
CandidateLengths(limit) == [x \in 1..limit |-> limit + 1 - x]

RECURSIVE FirstMatch(_, _, _, _)
\* The for loop of lines 78-84: the first candidate length whose substring
\* is a key of phrase_map, if any.
FirstMatch(pm, text, i, lens) ==
    IF lens = <<>> THEN [matched |-> FALSE, length |-> 0]
    ELSE IF DictHas(pm, Slice(text, i, i + Head(lens)))
         THEN [matched |-> TRUE, length |-> Head(lens)]
         ELSE FirstMatch(pm, text, i, Tail(lens))

\* Faulty variant: a character without entry is dropped.
CharOrDrop(cm, char) == IF DictHas(cm, char) THEN DictGet(cm, char) ELSE <<>>

\* Lines 88-91: the character table's value, or the character itself.
CharOrSelf(cm, char) == IF DictHas(cm, char) THEN DictGet(cm, char) ELSE char

\* Faulty variant: i += 1 after a phrase match.
AdvanceByOne(i, length) == i + 1

\* i += length
Advance(i, length) == i + length

NoFrame ==
    [at |-> "idle", text |-> <<>>, n |-> 0, i |-> 0, result |-> <<>>,
     ret |-> <<>>, raised |-> FALSE, steps |-> <<>>]

\* Lines 68-73: the early return for an empty text, else the locals.
EnterConvert(text) ==
    IF text = <<>>
    THEN [NoFrame EXCEPT !.at = "done", !.ret = text]
    ELSE [NoFrame EXCEPT !.at = "loop", !.text = text, !.n = Len(text)]

\* One iteration of the while loop, lines 76-92, on the frame fr of a call,
\* reading the globals pm, cm, mpl. Gives the frame and phrase_map as the
\* iteration leaves them. steps is history: where the iteration started,
\* what it consumed, what it emitted and by which branch.
LoopBody(pm, cm, mpl, fr) ==
    LET limit == Limit(mpl, fr.n, fr.i)
        m == FirstMatch(pm, fr.text, fr.i, CandidateLengths(limit))
    IN  IF m.matched
        THEN LET sub == Slice(fr.text, fr.i, fr.i + m.length)
                 rd == DictRead(pm, sub)
             IN  [frame |-> [fr EXCEPT
                        !.result = Append(fr.result, rd.val),
                        !.i = Advance(fr.i, m.length),
                        !.steps = Append(fr.steps,
                            [start |-> fr.i, seg |-> sub, val |-> rd.val,
                             via |-> "phrase"])],
                  phrase_map |-> rd.dict]
        ELSE IF fr.i >= fr.n
        THEN [frame |-> [fr EXCEPT !.at = "raised", !.raised = TRUE],
              phrase_map |-> pm]
        ELSE LET char == <<fr.text[fr.i + 1]>>
                 out == CharOrSelf(cm, char)
             IN  [frame |-> [fr EXCEPT
                        !.result = Append(fr.result, out),
                        !.i = fr.i + 1,
                        !.steps = Append(fr.steps,
                            [start |-> fr.i, seg |-> char, val |-> out,
                             via |-> IF DictHas(cm, char) THEN "char" ELSE "raw"])],
                  phrase_map |-> pm]

\* Faulty variant: return " ".join(result)
LeaveConvertSpaced(fr) ==
    [fr EXCEPT !.at = "done",
               !.ret = IF fr.result = <<>> THEN <<>>
                       ELSE Head(fr.result) \o
                            Join([x \in 1..(Len(fr.result) - 1) |->
                                    <<32>> \o fr.result[x + 1]])]

\* Line 94
LeaveConvert(fr) == [fr EXCEPT !.at = "done", !.ret = Join(fr.result)]

RECURSIVE RunLoop(_, _, _, _)
RunLoop(pm, cm, mpl, fr) ==
    IF fr.at = "loop" /\ fr.i < fr.n
    THEN LET b == LoopBody(pm, cm, mpl, fr)
         IN  RunLoop(b.phrase_map, cm, mpl, b.frame)
    ELSE IF fr.at = "loop" THEN LeaveConvert(fr) ELSE fr

\* convert_text(text) run alone, start to end, on the given globals.
ConvertText(pm, cm, mpl, text) == RunLoop(pm, cm, mpl, EnterConvert(text)).ret

\* Faulty variant: i is a global, shared by the running calls.
SharedFrame(cs, c, fr) ==
    [x \in DOMAIN cs |->
        IF x = c THEN fr
        ELSE IF cs[x].at = "loop" THEN [cs[x] EXCEPT !.i = fr.i] ELSE cs[x]]

\* The locals of a call are its own: a call's step writes its own frame only.
PutFrame(cs, c, fr) == [cs EXCEPT ![c] = fr]

\* convert_text(text) is called by caller c.
ConvertCall(c, text) ==
    /\ calls[c].at \in {"idle", "done"}
    /\ calls' = PutFrame(calls, c, EnterConvert(text))
    /\ UNCHANGED <<phrase_map, char_map, max_phrase_len>>

\* while i < n: one iteration
ConvertLoop(c) ==
    /\ calls[c].at = "loop"
    /\ calls[c].i < calls[c].n
    /\ LET b == LoopBody(phrase_map, char_map, max_phrase_len, calls[c])
       IN  /\ calls' = PutFrame(calls, c, b.frame)
           /\ phrase_map' = b.phrase_map
    /\ UNCHANGED <<char_map, max_phrase_len>>

\* the loop is left: return "".join(result)
ConvertReturn(c) ==
    /\ calls[c].at = "loop"
    /\ ~(calls[c].i < calls[c].n)
    /\ calls' = PutFrame(calls, c, LeaveConvert(calls[c]))
    /\ UNCHANGED <<phrase_map, char_map, max_phrase_len>>

(***************************************************************************)
(* The tables load_dict can build over the alphabet: keys are non-empty    *)
(* and distinct. A phrase key's value brackets the key, a character key's  *)
(* value is another code point, so that the output shows which entry       *)
(* produced each part of it.                                               *)
(***************************************************************************)
RECURSIVE SeqOfSet(_)
SeqOfSet(S) ==
    IF S = {} THEN <<>>
    ELSE LET x == CHOOSE x \in S : TRUE IN <<x>> \o SeqOfSet(S \ {x})

PhraseValue(k) == <<12300>> \o k \o <<12301>>

CharValue(k) == [j \in 1..Len(k) |-> k[j] + 10000]

PhraseTables(maxLen, maxN) ==
    {SeqOfSet({[k |-> k, v |-> PhraseValue(k)] : k \in K}) :
        K \in {K \in SUBSET Strs(Alphabet, 1, maxLen) : Cardinality(K) <= maxN}}

CharTables ==
    {SeqOfSet({[k |-> k, v |-> CharValue(k)] : k \in K}) :
        K \in SUBSET Strs(Alphabet, 1, 1)}

(***************************************************************************)
(* Frames of the script outside convert_text.                              *)
(***************************************************************************)
DictNames == {"STPhrases.txt", "STCharacters.txt"}

\* No load_dict call is running. at is "reading" inside the for loop of a
\* call and "returned" once the call has returned, its history kept until
\* the script moves on.
NoLoad == [at |-> "none", name |-> "", count |-> 0, hist |-> <<>>]

\* No call of translate_zh_text or ai_rewrite_zh_for_terms.
NoRetry ==
    [at |-> "idle", fn |-> "", retries |-> 0, attempt |-> 0,
     last_error |-> [set |-> FALSE, text |-> <<>>],
     result |-> <<>>, raised |-> <<>>, log |-> <<>>, slept |-> {}]

\* Nothing is loaded yet.
NotLoaded ==
    [phrase_map |-> <<>>, char_map |-> <<>>, max_phrase_len |-> 0,
     returned |-> {}, computed |-> FALSE]

\* No target directory.
NoDir == [isdir |-> FALSE, csv |-> <<>>, tmp |-> <<>>, orig |-> <<>>]

\* The file loop has not started. sent is history: the columns of the row
\* at hand whose cell was passed to convert_text.
NoJob == [f |-> 0, r |-> 0, col |-> 0, new_row |-> <<>>, sent |-> {}]

(***************************************************************************)
(* SpecConv: convert_text as a function of its text and the loaded tables. *)
(* The tables are any load_dict can have built, max_phrase_len is computed *)
(* from them as lines 57-59 do, and the caller calls convert_text once, on *)
(* any text.                                                               *)
(***************************************************************************)
InitConv ==
    /\ pc = "convert"
    /\ files = [f \in {"STPhrases.txt", "STCharacters.txt"} |-> "ok"]
    /\ phrase_map \in PhraseTables(MaxKeyLen, MaxPhraseEntries)
    /\ char_map \in CharTables
    /\ max_phrase_len = MaxPhraseLen(phrase_map)
    /\ warned = {}
    /\ ld = NoLoad
    /\ calls = [c \in {"main"} |-> NoFrame]
    /\ loaded = [phrase_map |-> phrase_map, char_map |-> char_map,
                 max_phrase_len |-> max_phrase_len,
                 returned |-> DictNames, computed |-> TRUE]
    /\ fs = NoDir
    /\ job = NoJob
    /\ rt = NoRetry

ConvCall ==
    /\ calls["main"].at = "idle"
    /\ \E text \in Strs(Alphabet, 0, MaxTextLen) : ConvertCall("main", text)
    /\ UNCHANGED <<pc, files, warned, ld, loaded, fs, job>>
    /\ UNCHANGED rt

ConvLoop ==
    /\ ConvertLoop("main")
    /\ UNCHANGED <<pc, files, warned, ld, loaded, fs, job>>
    /\ UNCHANGED rt

ConvReturn ==
    /\ ConvertReturn("main")
    /\ UNCHANGED <<pc, files, warned, ld, loaded, fs, job>>
    /\ UNCHANGED rt

NextConv == ConvCall \/ ConvLoop \/ ConvReturn

SpecConv == InitConv /\ [][NextConv]_vars

SpecConvFair == SpecConv /\ WF_vars(ConvLoop) /\ WF_vars(ConvReturn)

(***************************************************************************)
(* Properties of convert_text.                                             *)
(***************************************************************************)
\* The call frames that have entered the loop or returned.
Entered == {c \in DOMAIN calls : calls[c].at \in {"loop", "done"}}

\* k is a prefix of text[i:]
IsPrefixAt(k, text, i) ==
    /\ i + Len(k) <= Len(text)
    /\ SubSeq(text, i + 1, i + Len(k)) = k

\* The phrase_map keys that are a prefix of text[i:].
MatchingKeys(text, i) == {k \in DictKeys(phrase_map) : IsPrefixAt(k, text, i)}

\* The position the x-th iteration of a call left i at.
PositionAfter(fr, x) ==
    IF x < Len(fr.steps) THEN fr.steps[x + 1].start ELSE fr.i

\* C1: at every position convert_text reaches where some phrase_map key is a
\* prefix of the rest of the text, the iteration emits the value of the
\* longest such key and advances i by exactly that key's length: the window
\* limit = min(max_phrase_len, n - i) misses no matching key, a key that ends
\* the text included.
C1_LongestMatch ==
    \A c \in Entered :
        LET fr == calls[c] IN
        \A x \in 1..Len(fr.steps) :
            LET s == fr.steps[x]
                M == MatchingKeys(fr.text, s.start)
            IN  M # {} =>
                    /\ s.via = "phrase"
                    /\ s.seg \in M
                    /\ \A k \in M : Len(k) <= Len(s.seg)
                    /\ fr.result[x] = DictGet(phrase_map, s.seg)
                    /\ PositionAfter(fr, x) = s.start + Len(s.seg)

\* A call returned whose text has a position where two keys match and the
\* longer one, as long as max_phrase_len, is exactly what is left of the text.
C1_Witness ==
    \E c \in DOMAIN calls :
        LET fr == calls[c] IN
        /\ fr.at = "done"
        /\ \E x \in 1..Len(fr.steps) :
            LET s == fr.steps[x] IN
            /\ s.start > 0
            /\ Cardinality(MatchingKeys(fr.text, s.start)) >= 2
            /\ Len(s.seg) = max_phrase_len
            /\ s.start + Len(s.seg) = fr.n
            /\ s.via = "phrase"

\* C2: the character table is consulted at a position only when no
\* phrase_map key matches there; the iteration then consumes exactly one
\* code point and emits char_map's value for it if it is a char_map key and
\* the code point itself otherwise. A code point that is a key of both
\* tables, consumed alone, is given the phrase table's value.
C2_CharFallback ==
    \A c \in Entered :
        LET fr == calls[c] IN
        \A x \in 1..Len(fr.steps) :
            LET s == fr.steps[x]
                char == <<fr.text[s.start + 1]>>
            IN  /\ s.via # "phrase" <=> MatchingKeys(fr.text, s.start) = {}
                /\ s.via # "phrase" =>
                    /\ s.seg = char
                    /\ PositionAfter(fr, x) = s.start + 1
                    /\ fr.result[x] =
                          IF char \in DictKeys(char_map)
                          THEN DictGet(char_map, char) ELSE char
                    /\ s.via = "char" <=> char \in DictKeys(char_map)
                /\ (char \in DictKeys(phrase_map) /\ s.seg = char) =>
                    fr.result[x] = DictGet(phrase_map, char)

\* A call returned in which one code point, a key of both tables, was
\* consumed alone and another went through the character table.
C2_Witness ==
    \E c \in DOMAIN calls :
        LET fr == calls[c] IN
        /\ fr.at = "done"
        /\ \E x \in 1..Len(fr.steps) :
            /\ fr.steps[x].via = "phrase"
            /\ Len(fr.steps[x].seg) = 1
            /\ fr.steps[x].seg \in DictKeys(char_map)
        /\ \E x \in 1..Len(fr.steps) : fr.steps[x].via = "char"

\* No substring of text is a phrase_map key and no code point a char_map key.
Untouched(text) ==
    /\ \A i \in 0..(Len(text) - 1) : MatchingKeys(text, i) = {}
    /\ \A j \in 1..Len(text) : <<text[j]>> \notin DictKeys(char_map)

\* C3: for every text, the empty one included, in which no substring is a
\* phrase_map key and no code point is a char_map key, convert_text returns
\* the text.
C3_PassThrough ==
    \A c \in DOMAIN calls :
        (calls[c].at = "done" /\ Untouched(calls[c].text)) =>
            calls[c].ret = calls[c].text

\* A call returned a text of several code points that neither of two
\* non-empty tables touches.
C3_Witness ==
    \E c \in DOMAIN calls :
        /\ calls[c].at = "done"
        /\ calls[c].n >= 2
        /\ phrase_map # <<>>
        /\ char_map # <<>>
        /\ Untouched(calls[c].text)
        /\ calls[c].ret = calls[c].text

\* C4: convert_text is total and terminates: i never exceeds len(text),
\* nothing is raised, every iteration advances i by at least 1, and a call
\* in its loop returns.
C4_Total ==
    /\ [](\A c \in DOMAIN calls :
            /\ calls[c].i <= calls[c].n
            /\ ~calls[c].raised
            /\ calls[c].at # "raised")
    /\ [][\A c \in DOMAIN calls :
            (calls[c].at = "loop" /\ calls'[c] # calls[c]) =>
                \/ calls'[c].at = "done"
                \/ calls'[c].at = "loop" /\ calls'[c].i >= calls[c].i + 1]_vars
    /\ \A c \in {"main"} : (calls[c].at = "loop") ~> (calls[c].at = "done")

\* A call returned a text longer than max_phrase_len with both tables empty.
C4_Witness ==
    \E c \in DOMAIN calls :
        /\ calls[c].at = "done"
        /\ phrase_map = <<>>
        /\ char_map = <<>>
        /\ max_phrase_len = 0
        /\ calls[c].n = MaxTextLen
        /\ Len(calls[c].steps) = calls[c].n

\* The segments a call consumed so far, in order.
Segments(fr) == [x \in 1..Len(fr.steps) |-> fr.steps[x].seg]

\* C5: at every iteration the segments consumed so far are non-empty,
\* contiguous from position 0 and concatenate to text[0:i]; the result list
\* holds one emitted value per segment, in order; at return the segments
\* concatenate to the whole text and the returned string is the
\* concatenation of the emitted values.
C5_ConsumedOnce ==
    \A c \in Entered :
        LET fr == calls[c] IN
        /\ Len(fr.result) = Len(fr.steps)
        /\ \A x \in 1..Len(fr.steps) :
            LET s == fr.steps[x] IN
            /\ s.start = (IF x = 1 THEN 0
                          ELSE fr.steps[x - 1].start + Len(fr.steps[x - 1].seg))
            /\ Len(s.seg) >= 1
            /\ s.seg = Slice(fr.text, s.start, s.start + Len(s.seg))
            /\ s.start + Len(s.seg) <= fr.n
            /\ fr.result[x] = s.val
        /\ Join(Segments(fr)) = Slice(fr.text, 0, fr.i)
        /\ fr.at = "done" =>
            /\ Join(Segments(fr)) = fr.text
            /\ fr.ret = Join(fr.result)

\* A call returned that consumed a phrase of two code points and then a
\* single code point.
C5_Witness ==
    \E c \in DOMAIN calls :
        LET fr == calls[c] IN
        /\ fr.at = "done"
        /\ Len(fr.steps) >= 2
        /\ fr.steps[1].via = "phrase"
        /\ Len(fr.steps[1].seg) = 2
        /\ fr.steps[2].via # "phrase"
        /\ fr.ret # fr.text

(***************************************************************************)
(* Spec: the script from its first load_dict call to its end.              *)
(*                                                                         *)
(* Each dictionary file is missing, readable or not decodable as UTF-8.    *)
(* Its lines are handed to load_dict one by one as the for loop asks for   *)
(* them; ld.hist is history, the lines read so far by the running call.    *)
(***************************************************************************)
MaxDictLines == 2   \* most lines read from one dictionary file
MaxFiles == 1       \* most CSV files in the target directory

\* Lines of STPhrases.txt: U+53D1 U+5934 -> U+9AEE U+982D, the same key with
\* another first candidate and a second one, a key of one code point after
\* two tabs, a line of one field, a second field that begins with a space.
PhraseLines ==
    {<<21457, 22836, TAB, 39662, 38957>>,
     <<21457, 22836, TAB, 30332, 38957, SP, 39662, 38957>>,
     <<21457, TAB, TAB, 30332>>,
     <<21457, 22836>>,
     <<22836, TAB, SP, 38957>>}

\* Lines of STCharacters.txt: U+53D1 -> U+9AEE U+767C, U+53D1 -> U+767C,
\* U+5934 -> U+982D behind a leading tab, "A" -> "B", a blank line.
CharLines ==
    {<<21457, TAB, 39662, SP, 30332>>,
     <<21457, TAB, 30332>>,
     <<TAB, 22836, TAB, 38957, SP>>,
     <<65, TAB, 66>>,
     <<SP>>}

LinesOf(name) == IF name = "STPhrases.txt" THEN PhraseLines ELSE CharLines

\* CSV files as csv.reader yields them: rows of cells. The header holds a
\* dictionary key; the cells are Chinese, Latin, mixed or empty.
CsvPool ==
    {<<>>,
     << <<<<21457>>, <<75>>>> >>,
     << <<<<21457>>, <<75>>>>, <<<<21457, 22836>>, <<65>>>> >>,
     << <<<<75>>>>, <<<<65, 22836, 21457>>, <<>>>>, <<<<65>>>> >>}

\* Faulty variant: the class reaches down to U+0000.
contains_up_to_9fff(text) == \E j \in 1..Len(text) : text[j] <= 40959

\* re.search(r'[\u4e00-\u9fff]', text)
contains_chinese(text) ==
    \E j \in 1..Len(text) : text[j] >= 19968 /\ text[j] <= 40959

\* Faulty variant: no os.path.exists check before open().
OpenResultNoCheck(state) == IF state = "missing" THEN "raise" ELSE "open"

\* Lines 31-36: a path that does not exist is warned about and load_dict
\* returns; any other is opened.
OpenResult(state) == IF state = "missing" THEN "warn" ELSE "open"

Init ==
    /\ pc = "load_phrase"
    /\ files \in [DictNames -> {"missing", "ok", "undecodable"}]
    /\ phrase_map = <<>>
    /\ char_map = <<>>
    /\ max_phrase_len = 0
    /\ warned = {}
    /\ ld = NoLoad
    /\ calls = [c \in {"main"} |-> NoFrame]
    /\ loaded = NotLoaded
    /\ \E isdir \in BOOLEAN, nf \in 0..MaxFiles :
        \E csv \in [1..nf -> CsvPool] :
            fs = [isdir |-> isdir, csv |-> csv, orig |-> csv,
                  tmp |-> [x \in 1..nf |-> [exists |-> FALSE, rows |-> <<>>]]]
    /\ job = NoJob
    /\ rt = NoRetry

\* The load_dict call at line 53 or 54 the script is at, if any.
CallSite ==
    IF pc = "load_phrase" THEN "STPhrases.txt"
    ELSE IF pc = "load_char" THEN "STCharacters.txt" ELSE ""

\* Faulty variant: the script goes from its first load_dict call to line 57.
AfterLoadOnce(name) == "max_len"

\* Where the script goes on when the load_dict call returns.
AfterLoad(name) == IF name = "STPhrases.txt" THEN "load_char" ELSE "max_len"

\* Lines 30-33: the file is missing.
LoadMissing ==
    /\ CallSite # ""
    /\ ld.at # "reading"
    /\ OpenResult(files[CallSite]) = "warn"
    /\ warned' = warned \cup {CallSite}
    /\ pc' = AfterLoad(CallSite)
    /\ ld' = NoLoad
    /\ loaded' = [loaded EXCEPT !.returned = @ \cup {CallSite}]
    /\ UNCHANGED <<files, phrase_map, char_map, max_phrase_len, calls,
                   fs, job>>
    /\ UNCHANGED rt

\* Lines 30-36: the path passed the check of line 31 and is opened; open()
\* raises FileNotFoundError on a path that does not exist, which nothing
\* catches.
LoadOpen ==
    /\ CallSite # ""
    /\ ld.at # "reading"
    /\ OpenResult(files[CallSite]) # "warn"
    /\ IF files[CallSite] = "missing"
       THEN pc' = "crashed" /\ ld' = NoLoad
       ELSE /\ ld' = [at |-> "reading", name |-> CallSite, count |-> 0,
                      hist |-> <<>>]
            /\ UNCHANGED pc
    /\ UNCHANGED <<files, phrase_map, char_map, max_phrase_len, warned,
                   calls, loaded, fs, job>>
    /\ UNCHANGED rt

\* The dict load_dict was called to fill.
TargetMap(name) == IF name = "STPhrases.txt" THEN phrase_map ELSE char_map

\* Lines 37-49: the file yields line and the loop body runs on it. An error
\* raised by the body leaves load_dict and ends the script.
ReadLine(line) ==
    /\ ld.at = "reading"
    /\ LET b == LineBody(TargetMap(ld.name), ld.count, line)
       IN  IF b.raised
           THEN /\ pc' = "crashed"
                /\ ld' = NoLoad
                /\ UNCHANGED <<phrase_map, char_map>>
           ELSE /\ IF ld.name = "STPhrases.txt"
                   THEN phrase_map' = b.map /\ UNCHANGED char_map
                   ELSE char_map' = b.map /\ UNCHANGED phrase_map
                /\ ld' = [ld EXCEPT !.count = b.count,
                                    !.hist = Append(ld.hist, line)]
                /\ UNCHANGED pc
    /\ UNCHANGED <<files, max_phrase_len, warned, calls, loaded, fs, job>>

LoadLine ==
    /\ Len(ld.hist) < MaxDictLines
    /\ \E line \in LinesOf(ld.name) : ReadLine(line)
    /\ UNCHANGED rt

\* Line 37: reading reaches bytes that are not UTF-8. The UnicodeDecodeError
\* leaves load_dict and, caught nowhere, ends the script.
LoadDecodeError ==
    /\ ld.at = "reading"
    /\ files[ld.name] = "undecodable"
    /\ pc' = "crashed"
    /\ ld' = NoLoad
    /\ UNCHANGED <<files, phrase_map, char_map, max_phrase_len, warned, calls,
                   loaded, fs, job>>
    /\ UNCHANGED rt

\* Lines 37, 50: the file is at its end; the count is printed.
LoadEnd ==
    /\ ld.at = "reading"
    /\ files[ld.name] = "ok"
    /\ pc' = AfterLoad(ld.name)
    /\ ld' = [ld EXCEPT !.at = "returned"]
    /\ loaded' = [loaded EXCEPT !.returned = @ \cup {ld.name}]
    /\ UNCHANGED <<files, phrase_map, char_map, max_phrase_len, warned, calls,
                   fs, job>>
    /\ UNCHANGED rt

\* Lines 57-61
ComputeMaxLen ==
    /\ pc = "max_len"
    /\ max_phrase_len' = MaxPhraseLen(phrase_map)
    /\ loaded' = [loaded EXCEPT !.phrase_map = phrase_map,
                                 !.char_map = char_map,
                                 !.max_phrase_len = max_phrase_len',
                                 !.computed = TRUE]
    /\ pc' = "check_dir"
    /\ ld' = NoLoad
    /\ UNCHANGED <<files, phrase_map, char_map, warned, calls, fs, job>>
    /\ UNCHANGED rt

\* Lines 98-100: the target is no directory, sys.exit(1).
DirMissing ==
    /\ pc = "check_dir"
    /\ ~fs.isdir
    /\ pc' = "exit1"
    /\ UNCHANGED <<files, phrase_map, char_map, max_phrase_len, warned, ld,
                   calls, loaded, fs, job>>
    /\ UNCHANGED rt

\* Lines 98-103: glob lists the CSV files.
DirListed ==
    /\ pc = "check_dir"
    /\ fs.isdir
    /\ pc' = "for_file"
    /\ job' = NoJob
    /\ UNCHANGED <<files, phrase_map, char_map, max_phrase_len, warned, ld,
                   calls, loaded, fs>>
    /\ UNCHANGED rt

\* Lines 105-113: the next file and its .tmp file are opened.
FileOpen ==
    /\ pc = "for_file"
    /\ job.f < Len(fs.csv)
    /\ job' = [NoJob EXCEPT !.f = job.f + 1]
    /\ fs' = [fs EXCEPT !.tmp[job.f + 1] = [exists |-> TRUE, rows |-> <<>>]]
    /\ pc' = "header"
    /\ UNCHANGED <<files, phrase_map, char_map, max_phrase_len, warned, ld,
                   calls, loaded>>
    /\ UNCHANGED rt

\* Lines 115-119: the file has no row. An empty row is written and continue
\* goes to the next file, past line 130.
HeaderMissing ==
    /\ pc = "header"
    /\ fs.csv[job.f] = <<>>
    /\ fs' = [fs EXCEPT !.tmp[job.f].rows = Append(@, <<>>)]
    /\ pc' = "for_file"
    /\ UNCHANGED <<files, phrase_map, char_map, max_phrase_len, warned, ld,
                   calls, loaded, job>>
    /\ UNCHANGED rt

\* Lines 115-121: the header row is written as read.
HeaderCopy ==
    /\ pc = "header"
    /\ fs.csv[job.f] # <<>>
    /\ fs' = [fs EXCEPT !.tmp[job.f].rows = Append(@, fs.csv[job.f][1])]
    /\ job' = [job EXCEPT !.r = 1]
    /\ pc' = "for_row"
    /\ UNCHANGED <<files, phrase_map, char_map, max_phrase_len, warned, ld,
                   calls, loaded>>
    /\ UNCHANGED rt

\* Lines 123-124: the reader yields the next row.
RowBegin ==
    /\ pc = "for_row"
    /\ job.r < Len(fs.csv[job.f])
    /\ job' = [job EXCEPT !.r = job.r + 1, !.col = 0, !.sent = {},
                          !.new_row = fs.csv[job.f][job.r + 1]]
    /\ pc' = "for_cell"
    /\ UNCHANGED <<files, phrase_map, char_map, max_phrase_len, warned, ld,
                   calls, loaded, fs>>
    /\ UNCHANGED rt

\* Faulty variant: new_row.append(value).
StoreCellAppend(row, col_index, value) == Append(row, value)

\* Line 127: new_row[col_index] = value, col_index counted from 0.
StoreCell(row, col_index, value) == [row EXCEPT ![col_index + 1] = value]

\* The cell the loop of line 125 is at.
Cell == fs.csv[job.f][job.r][job.col + 1]

\* Lines 125-126: a cell without Chinese is left as it is.
CellSkip ==
    /\ pc = "for_cell"
    /\ job.col < Len(fs.csv[job.f][job.r])
    /\ ~contains_chinese(Cell)
    /\ job' = [job EXCEPT !.col = job.col + 1]
    /\ UNCHANGED <<pc, files, phrase_map, char_map, max_phrase_len, warned,
                   ld, calls, loaded, fs>>
    /\ UNCHANGED rt

\* Lines 125-127: convert_text is called on a cell with Chinese.
CellCall ==
    /\ pc = "for_cell"
    /\ job.col < Len(fs.csv[job.f][job.r])
    /\ contains_chinese(Cell)
    /\ ConvertCall("main", Cell)
    /\ job' = [job EXCEPT !.sent = @ \cup {job.col + 1}]
    /\ pc' = "in_convert"
    /\ UNCHANGED <<files, warned, ld, loaded, fs>>
    /\ UNCHANGED rt

\* convert_text's loop, called from line 127.
CellLoop ==
    /\ pc = "in_convert"
    /\ ConvertLoop("main")
    /\ UNCHANGED <<pc, files, warned, ld, loaded, fs, job>>
    /\ UNCHANGED rt

\* convert_text returns to line 127, which stores the result in new_row.
CellReturn ==
    /\ pc = "in_convert"
    /\ ConvertReturn("main")
    /\ job' = [job EXCEPT !.new_row = StoreCell(@, job.col, calls'["main"].ret),
                          !.col = job.col + 1]
    /\ pc' = "for_cell"
    /\ UNCHANGED <<files, warned, ld, loaded, fs>>
    /\ UNCHANGED rt

\* Line 128
RowWrite ==
    /\ pc = "for_cell"
    /\ ~(job.col < Len(fs.csv[job.f][job.r]))
    /\ fs' = [fs EXCEPT !.tmp[job.f].rows = Append(@, job.new_row)]
    /\ pc' = "for_row"
    /\ UNCHANGED <<files, phrase_map, char_map, max_phrase_len, warned, ld,
                   calls, loaded, job>>
    /\ UNCHANGED rt

\* Line 130: the rows are exhausted, both files are closed and the .tmp file
\* replaces the file. The rows it held are kept as history.
FileReplace ==
    /\ pc = "for_row"
    /\ ~(job.r < Len(fs.csv[job.f]))
    /\ fs' = [fs EXCEPT !.csv[job.f] = fs.tmp[job.f].rows,
                        !.tmp[job.f] = [exists |-> FALSE, rows |-> @.rows]]
    /\ pc' = "for_file"
    /\ UNCHANGED <<files, phrase_map, char_map, max_phrase_len, warned, ld,
                   calls, loaded, job>>
    /\ UNCHANGED rt

\* Line 132
Finish ==
    /\ pc = "for_file"
    /\ ~(job.f < Len(fs.csv))
    /\ pc' = "done"
    /\ UNCHANGED <<files, phrase_map, char_map, max_phrase_len, warned, ld,
                   calls, loaded, fs, job>>
    /\ UNCHANGED rt

Next ==
    \/ LoadMissing \/ LoadOpen \/ LoadLine \/ LoadDecodeError
    \/ LoadEnd \/ ComputeMaxLen \/ DirMissing \/ DirListed \/ FileOpen
    \/ HeaderMissing \/ HeaderCopy \/ RowBegin \/ CellSkip \/ CellCall
    \/ CellLoop \/ CellReturn \/ RowWrite \/ FileReplace \/ Finish

Spec == Init /\ [][Next]_vars

(***************************************************************************)
(* SpecLine: the body of load_dict's loop on any one line over code points *)
(* of every kind the body tells apart (tab, space, others), read into an   *)
(* empty table or into one that a first line has filled.                   *)
(***************************************************************************)
MaxLineLen == 5
TwiceKeyLen == 2
TwiceTextLen == 2
MaxRetries == 2     \* longest dictionary line drawn

LineAlphabet == {21457, 22836, TAB, SP}

FirstLine == <<21457, TAB, 39662>>

InitLine ==
    /\ pc = "load_phrase"
    /\ files = [f \in DictNames |-> "ok"]
    /\ \E hist \in {<<>>, <<FirstLine>>} :
        LET b == IF hist = <<>> THEN [map |-> <<>>, count |-> 0]
                 ELSE LineBody(<<>>, 0, FirstLine)
        IN  /\ phrase_map = b.map
            /\ ld = [at |-> "reading", name |-> "STPhrases.txt",
                     count |-> b.count, hist |-> hist]
    /\ char_map = <<>>
    /\ max_phrase_len = 0
    /\ warned = {}
    /\ calls = [c \in {"main"} |-> NoFrame]
    /\ loaded = NotLoaded
    /\ fs = NoDir
    /\ job = NoJob
    /\ rt = NoRetry

LoadAnyLine ==
    /\ pc = "load_phrase"
    /\ Len(ld.hist) < 2
    /\ ld.hist = <<>> \/ ld.hist = <<FirstLine>>
    /\ \E line \in Strs(LineAlphabet, 0, MaxLineLen) : ReadLine(line)
    /\ UNCHANGED rt

NextLine == LoadAnyLine

SpecLine == InitLine /\ [][NextLine]_vars

(***************************************************************************)
(* SpecConc: convert_text called by several callers at once on texts of    *)
(* their own, against the same loaded tables. A step is one iteration of   *)
(* one caller's loop: an iteration writes the caller's locals only, so a   *)
(* finer interleaving has no other outcomes.                               *)
(***************************************************************************)
ConcKeyLen == 1     \* longest key of the tables shared by the callers
ConcEntries == 1    \* most entries of their phrase table
ConcTextLen == 2    \* longest text a caller converts

Callers == {"w1", "w2"}

InitConc ==
    /\ pc = "convert"
    /\ files = [f \in DictNames |-> "ok"]
    /\ phrase_map \in PhraseTables(ConcKeyLen, ConcEntries)
    /\ char_map \in CharTables
    /\ max_phrase_len = MaxPhraseLen(phrase_map)
    /\ warned = {}
    /\ ld = NoLoad
    /\ calls = [c \in Callers |-> NoFrame]
    /\ loaded = [phrase_map |-> phrase_map, char_map |-> char_map,
                 max_phrase_len |-> max_phrase_len,
                 returned |-> DictNames, computed |-> TRUE]
    /\ fs = NoDir
    /\ job = NoJob
    /\ rt = NoRetry

ConcCall(c) ==
    /\ \E text \in Strs(Alphabet, 0, ConcTextLen) : ConvertCall(c, text)
    /\ UNCHANGED <<pc, files, warned, ld, loaded, fs, job>>
    /\ UNCHANGED rt

ConcLoop(c) ==
    /\ ConvertLoop(c)
    /\ UNCHANGED <<pc, files, warned, ld, loaded, fs, job>>
    /\ UNCHANGED rt

ConcReturn(c) ==
    /\ ConvertReturn(c)
    /\ UNCHANGED <<pc, files, warned, ld, loaded, fs, job>>
    /\ UNCHANGED rt

NextConc == \E c \in Callers : ConcCall(c) \/ ConcLoop(c) \/ ConcReturn(c)

SpecConc == InitConc /\ [][NextConc]_vars

(***************************************************************************)
(* Properties of the loaded tables and of load_dict.                       *)
(***************************************************************************)
\* The script is past line 59: loading has finished.
PostLoad == pc \notin {"load_phrase", "load_char", "max_len", "crashed"}

\* C6: a convert_text call leaves phrase_map, char_map and max_phrase_len
\* unchanged: after any sequence of conversion calls the three hold the
\* values they had when loading finished.
C6_TablesUnchanged ==
    PostLoad =>
        /\ phrase_map = loaded.phrase_map
        /\ char_map = loaded.char_map
        /\ max_phrase_len = loaded.max_phrase_len

\* The script ended after conversions that read both tables and changed a
\* file.
C6_Witness ==
    /\ pc = "done"
    /\ phrase_map # <<>>
    /\ char_map # <<>>
    /\ fs.csv # fs.orig
    /\ \E x \in 1..Len(calls["main"].steps) : calls["main"].steps[x].via = "phrase"
    /\ \E x \in 1..Len(calls["main"].steps) : calls["main"].steps[x].via = "char"

\* C7: convert_text calls that run concurrently on texts of their own
\* against the same loaded tables each return, under every interleaving of
\* their iterations, what the call returns when run alone on the same text
\* and tables; two calls on the same text return the same.
C7_Interleaving ==
    /\ \A c \in DOMAIN calls :
        calls[c].at = "done" =>
            calls[c].ret = ConvertText(loaded.phrase_map, loaded.char_map,
                                       loaded.max_phrase_len, calls[c].text)
    /\ \A c, d \in DOMAIN calls :
        (calls[c].at = "done" /\ calls[d].at = "done"
            /\ calls[c].text = calls[d].text) => calls[c].ret = calls[d].ret

\* One caller returned a converted text of two code points while the other
\* is between two iterations of its own call.
C7_Witness ==
    /\ calls["w1"].at = "done"
    /\ calls["w1"].n = 2
    /\ calls["w1"].ret # calls["w1"].text
    /\ calls["w2"].at = "loop"
    /\ calls["w2"].i > 0
    /\ calls["w2"].i < calls["w2"].n

\* The parts of a line that load_dict looks at, by the code's own parsing.
PartsOf(line) == NonEmpty(SplitOn(Strip(line), TAB))

WellFormed(line) == Len(PartsOf(line)) >= 2

\* The well-formed lines of the running (or just returned) call that carry
\* the source key k, by their place in the file.
LinesWith(k) ==
    {j \in 1..Len(ld.hist) : WellFormed(ld.hist[j]) /\ PartsOf(ld.hist[j])[1] = k}

\* C8: when the same source key is on several well-formed lines, the table
\* maps it to the first candidate of the last of them, and holds the key
\* once.
C8_LastLineWins ==
    ld.at \in {"reading", "returned"} =>
        \A j \in 1..Len(ld.hist) :
            WellFormed(ld.hist[j]) =>
                LET k == PartsOf(ld.hist[j])[1]
                    last == CHOOSE q \in LinesWith(k) : \A r \in LinesWith(k) : r <= q
                IN  /\ DictCount(TargetMap(ld.name), k) = 1
                    /\ DictGet(TargetMap(ld.name), k)
                         = FirstCandidate(PartsOf(ld.hist[last])[2])

\* load_dict returned from a file whose first and last line carry the same
\* key with different first candidates.
C8_Witness ==
    /\ ld.at = "returned"
    /\ Len(ld.hist) >= 2
    /\ WellFormed(ld.hist[1])
    /\ WellFormed(ld.hist[Len(ld.hist)])
    /\ PartsOf(ld.hist[1])[1] = PartsOf(ld.hist[Len(ld.hist)])[1]
    /\ FirstCandidate(PartsOf(ld.hist[1])[2])
         # FirstCandidate(PartsOf(ld.hist[Len(ld.hist)])[2])

\* load_dict has been called on the file and has returned or raised.
Left(name) ==
    IF name = "STPhrases.txt"
    THEN pc # "load_phrase"
    ELSE \/ pc \notin {"load_phrase", "load_char", "crashed"}
         \/ pc = "crashed" /\ files["STPhrases.txt"] # "undecodable"

\* convert_text has been called.
Converted == calls["main"].at # "idle" \/ fs.csv # fs.orig

\* C9: load_dict keeps its two failure outcomes apart. A missing file is
\* warned about, leaves its table empty and the script goes on; a file that
\* is not UTF-8 is never warned about, its error ends the script, and no
\* conversion is ever performed.
C9_MissingOrUndecodable ==
    /\ \A name \in DictNames :
        /\ (files[name] = "missing" /\ Left(name)) =>
                /\ name \in warned
                /\ TargetMap(name) = <<>>
        /\ name \in warned => files[name] = "missing"
        /\ files[name] = "undecodable" =>
                /\ ~Converted
                /\ ~PostLoad
                /\ Left(name) => pc = "crashed"
    /\ pc = "crashed" =>
        \E name \in DictNames : files[name] = "undecodable" /\ name \notin warned

\* The script ended, having converted with the character table alone, the
\* phrase file being missing.
C9_Witness ==
    /\ pc = "done"
    /\ files["STPhrases.txt"] = "missing"
    /\ "STPhrases.txt" \in warned
    /\ phrase_map = <<>>
    /\ char_map # <<>>
    /\ fs.csv # fs.orig

\* The line without the white space at its two ends.
Trimmed(line) ==
    LET keep == {j \in 1..Len(line) : ~IsSpace(line[j])}
    IN  IF keep = {} THEN <<>>
        ELSE SubSeq(line, CHOOSE j \in keep : \A q \in keep : j <= q,
                          CHOOSE j \in keep : \A q \in keep : q <= j)

\* The maximal runs of code points other than tab in s, as <<first, last>>.
FieldRuns(s) ==
    {r \in (1..Len(s)) \X (1..Len(s)) :
        /\ r[1] <= r[2]
        /\ \A j \in r[1]..r[2] : s[j] # TAB
        /\ r[1] = 1 \/ s[r[1] - 1] = TAB
        /\ r[2] = Len(s) \/ s[r[2] + 1] = TAB}

\* The first of the runs R of s.
FirstRun(s, R) == CHOOSE r \in R : \A q \in R : r[1] <= q[1]

\* C10: a line's fields are the maximal tab-free runs of the trimmed line
\* (runs of tabs separate as one tab does). A line with two fields or more
\* adds one entry, from the first field to the first candidate of the
\* second; a line with fewer changes neither the table nor the entry count;
\* no line raises an error.
C10_Fields ==
    [][ld.at = "reading" =>
        /\ files[ld.name] # "undecodable" => pc' # "crashed"
        /\ (ld'.at = "reading" /\ Len(ld'.hist) = Len(ld.hist) + 1) =>
            LET s == Trimmed(ld'.hist[Len(ld'.hist)])
                R == FieldRuns(s)
                r1 == FirstRun(s, R)
                r2 == FirstRun(s, R \ {r1})
                key == SubSeq(s, r1[1], r1[2])
            IN  IF Cardinality(R) >= 2
                THEN /\ ld'.count = ld.count + 1
                     /\ DictKeys(phrase_map') = DictKeys(phrase_map) \cup {key}
                     /\ DictGet(phrase_map', key)
                          = FirstCandidate(SubSeq(s, r2[1], r2[2]))
                     /\ \A k \in DictKeys(phrase_map) \ {key} :
                            DictGet(phrase_map', k) = DictGet(phrase_map, k)
                ELSE /\ ld'.count = ld.count
                     /\ phrase_map' = phrase_map]_vars

\* A line whose two fields are two tabs apart has added its entry to a
\* table that held another.
C10_Witness ==
    /\ ld.at = "reading"
    /\ Len(ld.hist) = 2
    /\ ld.count = 2
    /\ Len(phrase_map) = 2
    /\ \E j \in 1..(Len(ld.hist[2]) - 1) :
        /\ j > 1
        /\ ld.hist[2][j] = TAB
        /\ ld.hist[2][j + 1] = TAB
    /\ phrase_map[2].v # <<>>

\* The code points of a field before its first space: all of it if it has
\* none.
BeforeSpace(field) ==
    LET sp == {j \in 1..Len(field) : field[j] = SP}
    IN  IF sp = {} THEN field
        ELSE SubSeq(field, 1, (CHOOSE j \in sp : \A q \in sp : j <= q) - 1)

\* The line the running load_dict call read last.
LastLine == ld.hist[Len(ld.hist)]

\* C11: for every accepted line the value stored is what the second field
\* holds before its first space: later candidates are discarded, and a
\* second field that begins with a space gives the empty target; nothing is
\* raised.
C11_FirstCandidate ==
    /\ pc # "crashed"
    /\ (ld.at = "reading" /\ ld.hist # <<>>) =>
        LET s == Trimmed(LastLine)
            R == FieldRuns(s)
            r1 == FirstRun(s, R)
            r2 == FirstRun(s, R \ {r1})
        IN  Cardinality(R) >= 2 =>
                /\ DictHas(phrase_map, SubSeq(s, r1[1], r1[2]))
                /\ DictGet(phrase_map, SubSeq(s, r1[1], r1[2]))
                     = BeforeSpace(SubSeq(s, r2[1], r2[2]))

\* A line was accepted whose second field begins with a space and goes on
\* with a candidate: its key is in the table with the empty target.
C11_Witness ==
    /\ ld.at = "reading"
    /\ ld.hist # <<>>
    /\ LET parts == PartsOf(LastLine)
       IN  /\ Len(parts) >= 2
           /\ parts[2][1] = SP
           /\ Len(parts[2]) >= 2
           /\ DictGet(phrase_map, parts[1]) = <<>>
           /\ ld.count = Len(ld.hist)

(***************************************************************************)
(* Properties of the file loop.                                            *)
(***************************************************************************)
\* The text has a code point in U+4E00..U+9FFF.
HasCJK(text) == \E j \in 1..Len(text) : text[j] \in 19968..40959

\* The file loop is inside the row loop of the file job.f.
InRows == pc \in {"for_row", "for_cell", "in_convert"}

\* The row loop is at a row: job.r is a data row of the file.
AtRow == pc \in {"for_cell", "in_convert"}

\* C12: in the row loop a cell is passed to convert_text if and only if it
\* has a code point in U+4E00..U+9FFF; a cell that has none is written
\* exactly as read, whatever keys of the tables it holds.
C12_Gating ==
    /\ pc = "in_convert" =>
        /\ HasCJK(Cell)
        /\ calls["main"].text = Cell
        /\ job.col + 1 \in job.sent
    /\ AtRow =>
        \A j \in 1..Len(fs.orig[job.f][job.r]) :
            LET cell == fs.orig[job.f][job.r][j] IN
            /\ j \in job.sent => HasCJK(cell)
            /\ (j <= job.col /\ HasCJK(cell)) => j \in job.sent
            /\ ~HasCJK(cell) => job.new_row[j] = cell
    /\ \A f \in 1..Len(fs.orig) :
        LET out == IF fs.tmp[f].exists THEN fs.tmp[f].rows ELSE fs.csv[f]
        IN  \A r \in 2..Len(out) : \A j \in 1..Len(fs.orig[f][r]) :
                ~HasCJK(fs.orig[f][r][j]) =>
                    /\ j <= Len(out[r])
                    /\ out[r][j] = fs.orig[f][r][j]

\* The script ended; a cell "A" of a data row is in the file as it was
\* read, "A" being a key of the character table, and the Chinese cell
\* beside it was converted.
C12_Witness ==
    /\ pc = "done"
    /\ DictHas(char_map, <<65>>)
    /\ \E f \in 1..Len(fs.orig) : \E r \in 2..Len(fs.orig[f]) :
        \E j, h \in 1..Len(fs.orig[f][r]) :
            /\ fs.orig[f][r][j] = <<65>>
            /\ fs.csv[f][r][j] = <<65>>
            /\ HasCJK(fs.orig[f][r][h])
            /\ fs.csv[f][r][h] # fs.orig[f][r][h]

(***************************************************************************)
(* Properties of the script's order and of max_phrase_len.                 *)
(***************************************************************************)
\* C13: both load_dict calls and the computation of max_phrase_len are
\* complete before the first convert_text call, and from then on nothing
\* writes phrase_map, char_map or max_phrase_len.
C13_LoadBeforeConvert ==
    /\ [](calls["main"].at # "idle" =>
            /\ loaded.returned = DictNames
            /\ loaded.computed
            /\ ld.at = "none")
    /\ [][(loaded.computed \/ calls["main"].at # "idle") =>
            /\ phrase_map' = phrase_map
            /\ char_map' = char_map
            /\ max_phrase_len' = max_phrase_len]_vars

\* convert_text is in its loop on a cell, both files having been read into
\* tables that are not empty.
C13_Witness ==
    /\ pc = "in_convert"
    /\ calls["main"].at = "loop"
    /\ calls["main"].i > 0
    /\ files = [f \in DictNames |-> "ok"]
    /\ phrase_map # <<>>
    /\ char_map # <<>>
    /\ max_phrase_len = 2

\* C14: after loading, max_phrase_len is the greatest length of a
\* phrase_map key, and 0 when phrase_map is empty; the keys of char_map do
\* not count.
C14_MaxPhraseLen ==
    loaded.computed =>
        /\ \A k \in DictKeys(phrase_map) : Len(k) <= max_phrase_len
        /\ phrase_map # <<>> =>
            \E k \in DictKeys(phrase_map) : Len(k) = max_phrase_len
        /\ phrase_map = <<>> => max_phrase_len = 0

\* max_phrase_len was computed as 0, the phrase file being missing and the
\* character table holding a key.
C14_Witness ==
    /\ loaded.computed
    /\ pc = "check_dir"
    /\ files["STPhrases.txt"] = "missing"
    /\ phrase_map = <<>>
    /\ char_map # <<>>
    /\ max_phrase_len = 0

(***************************************************************************)
(* Properties of the file loop.                                            *)
(***************************************************************************)
\* The loop of line 105 is past file f.
Processed(f) == f < job.f \/ (f = job.f /\ pc \in {"for_file", "done"})

\* The rows written for file f so far: those of its .tmp file while it is
\* there, and those of the file it replaced afterwards.
Written(f) ==
    IF fs.tmp[f].exists THEN fs.tmp[f].rows
    ELSE IF Processed(f) THEN fs.csv[f] ELSE <<>>

\* C15: for a file with a header row the header is written as read, then
\* one row for each data row in the same order and with as many cells,
\* each cell being the cell read at that index or convert_text of it.
C15_RowsAndCells ==
    \A f \in 1..Len(fs.orig) : fs.orig[f] # <<>> =>
        LET in == fs.orig[f]
            out == Written(f)
        IN  /\ Len(out) <= Len(in)
            /\ Processed(f) => Len(out) = Len(in)
            /\ (f = job.f /\ pc = "for_row") => Len(out) = job.r
            /\ Len(out) >= 1 => out[1] = in[1]
            /\ \A r \in 2..Len(out) :
                /\ Len(out[r]) = Len(in[r])
                /\ \A j \in 1..Len(in[r]) :
                    \/ out[r][j] = in[r][j]
                    \/ out[r][j] = ConvertText(phrase_map, char_map,
                                               max_phrase_len, in[r][j])

\* A file with a header row and two data rows has been replaced, one of its
\* cells converted and another one as it was.
C15_Witness ==
    /\ pc = "done"
    /\ Len(fs.orig) = 1
    /\ Len(fs.orig[1]) = 3
    /\ ~fs.tmp[1].exists
    /\ fs.csv[1][2][1] # fs.orig[1][2][1]
    /\ fs.csv[1][3][1] = fs.orig[1][3][1]

\* C17: when the loop moves on from a file, with a header row or without,
\* its .tmp file has been renamed over it; when the script prints
\* "Conversion complete." no .tmp file is left and every file holds what
\* was written to its .tmp file.
C17_TempReplaced ==
    /\ \A f \in 1..Len(fs.csv) : Processed(f) => ~fs.tmp[f].exists
    /\ pc = "done" =>
        \A f \in 1..Len(fs.csv) :
            /\ ~fs.tmp[f].exists
            /\ fs.csv[f] = fs.tmp[f].rows

(***************************************************************************)
(* convert_text applied to its own result: convert_text(convert_text(s)).  *)
(* The phrase table holds at most one entry, the character table any       *)
(* entries for single characters; values are strings over the alphabet, so *)
(* that a value can hold a key or join its neighbours into one.            *)
(***************************************************************************)
TwicePhraseTables ==
    {<<>>} \cup {<<[k |-> k, v |-> v]>> :
                    k \in Strs(Alphabet, 1, TwiceKeyLen),
                    v \in Strs(Alphabet, 1, TwiceKeyLen)}

TwiceCharTables ==
    UNION {{SeqOfSet({[k |-> k, v |-> val[k]] : k \in K}) :
                val \in [K -> Strs(Alphabet, 1, 1)]} :
           K \in SUBSET Strs(Alphabet, 1, 1)}

InitTwice ==
    /\ pc = "convert"
    /\ files = [f \in DictNames |-> "ok"]
    /\ phrase_map \in TwicePhraseTables
    /\ char_map \in TwiceCharTables
    /\ max_phrase_len = MaxPhraseLen(phrase_map)
    /\ warned = {}
    /\ ld = NoLoad
    /\ calls = [c \in {"main", "again"} |-> NoFrame]
    /\ loaded = [phrase_map |-> phrase_map, char_map |-> char_map,
                 max_phrase_len |-> max_phrase_len,
                 returned |-> DictNames, computed |-> TRUE]
    /\ fs = NoDir
    /\ job = NoJob
    /\ rt = NoRetry

\* convert_text(s)
TwiceCall ==
    /\ calls["main"].at = "idle"
    /\ \E text \in Strs(Alphabet, 0, TwiceTextLen) : ConvertCall("main", text)
    /\ UNCHANGED <<pc, files, warned, ld, loaded, fs, job>>
    /\ UNCHANGED rt

TwiceLoop ==
    /\ ConvertLoop("main")
    /\ UNCHANGED <<pc, files, warned, ld, loaded, fs, job>>
    /\ UNCHANGED rt

TwiceReturn ==
    /\ ConvertReturn("main")
    /\ UNCHANGED <<pc, files, warned, ld, loaded, fs, job>>
    /\ UNCHANGED rt

\* convert_text(convert_text(s)): the outer call, on what the inner returned.
AgainCall ==
    /\ calls["main"].at = "done"
    /\ calls["again"].at = "idle"
    /\ ConvertCall("again", calls["main"].ret)
    /\ UNCHANGED <<pc, files, warned, ld, loaded, fs, job>>
    /\ UNCHANGED rt

AgainLoop ==
    /\ ConvertLoop("again")
    /\ UNCHANGED <<pc, files, warned, ld, loaded, fs, job>>
    /\ UNCHANGED rt

AgainReturn ==
    /\ ConvertReturn("again")
    /\ UNCHANGED <<pc, files, warned, ld, loaded, fs, job>>
    /\ UNCHANGED rt

NextTwice ==
    \/ TwiceCall \/ TwiceLoop \/ TwiceReturn
    \/ AgainCall \/ AgainLoop \/ AgainReturn

SpecTwice == InitTwice /\ [][NextTwice]_vars

\* Key occurs in text as a substring.
OccursIn(key, text) ==
    \E p \in 0..(Len(text) - Len(key)) : Slice(text, p, p + Len(key)) = key

\* Both calls of convert_text(convert_text(s)) have returned.
BothDone == calls["main"].at = "done" /\ calls["again"].at = "done"

\* C16: convert_text is not idempotent: convert_text(convert_text(s)) can
\* differ from convert_text(s), and it does so only when convert_text(s)
\* holds a key of the phrase or character table, in an emitted value or
\* across the border of two.
C16_NotIdempotent ==
    (BothDone /\ calls["again"].ret # calls["main"].ret) =>
        /\ calls["again"].text = calls["main"].ret
        /\ \E key \in DictKeys(phrase_map) \cup DictKeys(char_map) :
                OccursIn(key, calls["main"].ret)

\* The second conversion gave another string than the first, through a
\* phrase key that no emitted value holds but two neighbours make up.
C16_Witness ==
    /\ BothDone
    /\ calls["again"].ret # calls["main"].ret
    /\ char_map # <<>>
    /\ phrase_map # <<>>
    /\ \A x \in 1..Len(calls["main"].steps) :
            /\ calls["main"].steps[x].via = "char"
            /\ ~OccursIn(phrase_map[1].k, calls["main"].steps[x].val)
    /\ \A key \in DictKeys(char_map) : ~OccursIn(key, calls["main"].ret)
    /\ OccursIn(phrase_map[1].k, calls["main"].ret)

(***************************************************************************)
(* The retry loop of translate_zh_text (ai_translate_missing_zh.py, lines  *)
(* 172-193); ai_rewrite_zh_for_terms (ai_fix_term_alignment.py, lines      *)
(* 148-168) has the same loop. Text is a sequence of code points, an error *)
(* text a sequence of pieces.                                              *)
(***************************************************************************)
BT == 96

NL == 10

Fence == <<BT, BT, BT>>

StartsWith(s, prefix) ==
    Len(s) >= Len(prefix) /\ SubSeq(s, 1, Len(prefix)) = prefix

EndsWith(s, suffix) ==
    Len(s) >= Len(suffix)
        /\ SubSeq(s, Len(s) - Len(suffix) + 1, Len(s)) = suffix

IsAsciiLetter(ch) == ch \in 65..90 \/ ch \in 97..122

\* How many letters s has from position from on, before anything else.
RECURSIVE LetterRun(_, _)
LetterRun(s, from) ==
    IF from <= Len(s) /\ IsAsciiLetter(s[from])
    THEN 1 + LetterRun(s, from + 1) ELSE 0

\* re.sub(r"^```[a-zA-Z]*\n", "", s)
DropOpeningFence(s) ==
    IF StartsWith(s, Fence)
    THEN LET nl == Len(Fence) + LetterRun(s, Len(Fence) + 1) + 1
         IN  IF nl <= Len(s) /\ s[nl] = NL
             THEN SubSeq(s, nl + 1, Len(s)) ELSE s
    ELSE s

\* re.sub(r"\n```$", "", s): $ is the end or the place before a last newline.
DropClosingFence(s) ==
    LET closing == <<NL>> \o Fence
    IN  IF EndsWith(s, closing)
        THEN SubSeq(s, 1, Len(s) - Len(closing))
        ELSE IF EndsWith(s, closing \o <<NL>>)
        THEN SubSeq(s, 1, Len(s) - Len(closing) - 1) \o <<NL>>
        ELSE s

\* Lines 120-124
sanitize_model_output(text) ==
    Strip(DropClosingFence(DropOpeningFence(Strip(text))))

\* Lines 111-117 of call_openai_chat: what it returns for the content of the
\* first choice, the empty content standing for no choice or no content too.
call_openai_chat(content) == Strip(content)

\* Contents the API answers with.
ContentPool ==
    {<<>>,
     <<22909>>,
     <<SP, 22909, NL>>,
     <<SP, NL>>,
     Fence \o <<NL, 22909, NL>> \o Fence,
     Fence \o <<97, 98, NL, 22909, 22836, NL>> \o Fence,
     Fence \o <<NL, NL>> \o Fence,
     Fence \o <<22909>>}

\* What e.read().decode(...) gives in the HTTPError handler: a body, or
\* "raises" when reading fails.
BodyPool == {"", "quota exceeded", "raises"}

\* Lines 179-186: last_error of an HTTPError with this code and body.
HTTPErrorText(code, body) ==
    IF body \in {"", "raises"}
    THEN <<"HTTP ", code>>
    ELSE <<"HTTP ", code, ": ", body>>

\* str(e) of the other exceptions the call raises (URLError, a timeout,
\* JSONDecodeError, AttributeError): they all carry a text.
ErrorTexts == {<<"timed out">>, <<"Expecting value">>}

\* Faulty variant: the sleep follows every failed attempt.
AnotherAttemptAlways(attempt, retries) == TRUE

\* Line 190
AnotherAttempt(attempt, retries) == attempt < retries

\* Line 193: last_error or "unknown api error"
ErrorOr(last_error) ==
    IF last_error.set /\ last_error.text # <<>>
    THEN last_error.text ELSE <<"unknown api error">>

RetryFunctions == {"translate_zh_text", "ai_rewrite_zh_for_terms"}

InitRetry ==
    /\ pc = "translate"
    /\ files = [f \in DictNames |-> "ok"]
    /\ phrase_map = <<>>
    /\ char_map = <<>>
    /\ max_phrase_len = 0
    /\ warned = {}
    /\ ld = NoLoad
    /\ calls = [c \in {"main"} |-> NoFrame]
    /\ loaded = NotLoaded
    /\ fs = NoDir
    /\ job = NoJob
    /\ rt = NoRetry

\* Lines 172-173: the function is called; its callers pass max(0, retries).
RetryCall ==
    /\ rt.at = "idle"
    /\ \E fn \in RetryFunctions, retries \in 0..MaxRetries :
        rt' = [NoRetry EXCEPT !.at = "try", !.fn = fn, !.retries = retries]
    /\ UNCHANGED <<pc, files, phrase_map, char_map, max_phrase_len, warned,
                   ld, calls, loaded, fs, job>>

\* Lines 175-178: the API call returns; a result that is not empty is
\* returned.
AttemptReturns ==
    /\ rt.at = "try"
    /\ \E content \in ContentPool :
        LET result == sanitize_model_output(call_openai_chat(content))
        IN  rt' = [rt EXCEPT
                !.at = IF result # <<>> THEN "returned" ELSE "after",
                !.result = IF result # <<>> THEN result ELSE @,
                !.log = Append(@,
                    [kind |-> IF result # <<>> THEN "ok" ELSE "empty",
                     content |-> content, out |-> result, err |-> <<>>])]
    /\ UNCHANGED <<pc, files, phrase_map, char_map, max_phrase_len, warned,
                   ld, calls, loaded, fs, job>>

\* Lines 179-186: the API call raises HTTPError.
AttemptHTTPError ==
    /\ rt.at = "try"
    /\ \E code \in {"429", "500"}, body \in BodyPool :
        LET text == HTTPErrorText(code, body)
        IN  rt' = [rt EXCEPT
                !.at = "after",
                !.last_error = [set |-> TRUE, text |-> text],
                !.log = Append(@, [kind |-> "http", content |-> <<>>,
                                   out |-> <<>>, err |-> text])]
    /\ UNCHANGED <<pc, files, phrase_map, char_map, max_phrase_len, warned,
                   ld, calls, loaded, fs, job>>

\* Lines 187-188: the API call raises another Exception.
AttemptRaises ==
    /\ rt.at = "try"
    /\ \E text \in ErrorTexts :
        rt' = [rt EXCEPT
                !.at = "after",
                !.last_error = [set |-> TRUE, text |-> text],
                !.log = Append(@, [kind |-> "error", content |-> <<>>,
                                   out |-> <<>>, err |-> text])]
    /\ UNCHANGED <<pc, files, phrase_map, char_map, max_phrase_len, warned,
                   ld, calls, loaded, fs, job>>

\* Lines 190-191: time.sleep(sleep_sec) if another attempt is to come.
\* slept is history: the attempts a sleep followed.
AfterAttempt ==
    /\ rt.at = "after"
    /\ rt' = [rt EXCEPT
            !.at = "next",
            !.slept = IF AnotherAttempt(rt.attempt, rt.retries)
                      THEN @ \cup {rt.attempt} ELSE @]
    /\ UNCHANGED <<pc, files, phrase_map, char_map, max_phrase_len, warned,
                   ld, calls, loaded, fs, job>>

\* Line 173: range(retries + 1) gives the next attempt.
NextAttempt ==
    /\ rt.at = "next"
    /\ rt.attempt + 1 < rt.retries + 1
    /\ rt' = [rt EXCEPT !.at = "try", !.attempt = @ + 1]
    /\ UNCHANGED <<pc, files, phrase_map, char_map, max_phrase_len, warned,
                   ld, calls, loaded, fs, job>>

\* Line 193: the range is exhausted.
RaiseRuntimeError ==
    /\ rt.at = "next"
    /\ ~(rt.attempt + 1 < rt.retries + 1)
    /\ rt' = [rt EXCEPT !.at = "raised", !.raised = ErrorOr(rt.last_error)]
    /\ UNCHANGED <<pc, files, phrase_map, char_map, max_phrase_len, warned,
                   ld, calls, loaded, fs, job>>

NextRetry ==
    \/ RetryCall \/ AttemptReturns \/ AttemptHTTPError \/ AttemptRaises
    \/ AfterAttempt \/ NextAttempt \/ RaiseRuntimeError

SpecRetry == InitRetry /\ [][NextRetry]_vars

(***************************************************************************)
(* Properties of the retry loop.                                           *)
(***************************************************************************)
\* The API call of attempt x (counted from 1) gave no result.
Unsuccessful(x) == rt.log[x].kind # "ok"

\* The loop is past attempt x: line 190 was reached after it.
Passed(x) == x < Len(rt.log) \/ rt.at \in {"next", "raised"}

\* The attempts that recorded an error.
Recorded == {x \in 1..Len(rt.log) : rt.log[x].kind \in {"http", "error"}}

====
